---- MODULE Spec2Model ----
(***************************************************************************)
(* A model of the approval-gated function-call mediator                    *)
(* (ApprovalRequiredTool, src/04human-in-the-loop/human_in_the_loop.py).   *)
(*                                                                         *)
(* Python values are tagged records.  A str is a sequence of text tokens   *)
(* (a token is an atomic piece of text: a word, a JSON punctuation mark, a *)
(* quoted JSON string literal), so formatting is concatenation and parsing *)
(* walks the tokens.  The glyphs that open the messages of the source are  *)
(* written here as the ASCII tokens "(x) " and "(no-entry) ".              *)
(***************************************************************************)
EXTENDS Integers, Sequences, FiniteSets, TLC

(***************************************************************************)
(* Bounds                                                                  *)
(***************************************************************************)
MaxInvocations == 2
MaxLines == 3

(***************************************************************************)
(* Python values                                                           *)
(***************************************************************************)
PyStr(toks) == [t |-> "str", s |-> toks]
PyInt(n) == [t |-> "int", n |-> n]
PyBool(b) == [t |-> "bool", b |-> b]
PyNone == [t |-> "none"]
PyDict(m) == [t |-> "dict", m |-> m]
PyList(l) == [t |-> "list", l |-> l]

EmptyMap == <<>>

\* bool(v): the truth value Python's `if v` and `a and b` test
Truthy(v) ==
    CASE v.t = "str" -> v.s # <<>>
      [] v.t = "int" -> v.n # 0
      [] v.t = "bool" -> v.b
      [] v.t = "none" -> FALSE
      [] v.t = "dict" -> DOMAIN v.m # {}
      [] v.t = "list" -> v.l # <<>>

\* isinstance(v, str), isinstance(v, dict)
IsStr(v) == v.t = "str"
IsDict(v) == v.t = "dict"

\* str.strip() on a token sequence: whitespace tokens are " "
RECURSIVE LStrip(_)
LStrip(toks) ==
    IF toks # <<>> /\ Head(toks) = " " THEN LStrip(Tail(toks)) ELSE toks

RECURSIVE RStrip(_)
RStrip(toks) ==
    IF toks # <<>> /\ toks[Len(toks)] = " "
    THEN RStrip(SubSeq(toks, 1, Len(toks) - 1))
    ELSE toks

Strip(toks) == RStrip(LStrip(toks))

(***************************************************************************)
(* json.loads over token sequences.  String literals and numbers are       *)
(* single tokens; StringLit and NumberLit give what each one denotes.      *)
(***************************************************************************)
StringLit ==
    ("\"filename\"" :> "filename") @@ ("\"content\"" :> "content") @@
    ("\"other.txt\"" :> "other.txt") @@ ("\"hi\"" :> "hi") @@ ("\"\"" :> "")

NumberLit == ("0" :> 0) @@ ("1" :> 1)

StrOfLit(c) == IF c = "" THEN PyStr(<<>>) ELSE PyStr(<<c>>)

ParseFail == [ok |-> FALSE, v |-> PyNone, i |-> 0]
ParseOk(v, i) == [ok |-> TRUE, v |-> v, i |-> i]

RECURSIVE ParseValue(_, _)
RECURSIVE ParseMembers(_, _, _)
RECURSIVE ParseElements(_, _, _)

\* one JSON value starting at token i; i |-> the index after it
ParseValue(w, i) ==
    IF i > Len(w) THEN ParseFail
    ELSE IF w[i] = "{" THEN
        IF i + 1 <= Len(w) /\ w[i + 1] = "}"
        THEN ParseOk(PyDict(EmptyMap), i + 2)
        ELSE ParseMembers(w, i + 1, EmptyMap)
    ELSE IF w[i] = "[" THEN
        IF i + 1 <= Len(w) /\ w[i + 1] = "]"
        THEN ParseOk(PyList(<<>>), i + 2)
        ELSE ParseElements(w, i + 1, <<>>)
    ELSE IF w[i] \in DOMAIN StringLit THEN ParseOk(StrOfLit(StringLit[w[i]]), i + 1)
    ELSE IF w[i] \in DOMAIN NumberLit THEN ParseOk(PyInt(NumberLit[w[i]]), i + 1)
    ELSE IF w[i] = "null" THEN ParseOk(PyNone, i + 1)
    ELSE IF w[i] = "true" THEN ParseOk(PyBool(TRUE), i + 1)
    ELSE IF w[i] = "false" THEN ParseOk(PyBool(FALSE), i + 1)
    ELSE ParseFail

\* the members of an object, from the key at token i; a repeated key keeps
\* its last value
ParseMembers(w, i, m) ==
    IF i + 1 > Len(w) \/ w[i] \notin DOMAIN StringLit THEN ParseFail
    ELSE IF w[i + 1] # ":" THEN ParseFail
    ELSE LET r == ParseValue(w, i + 2) IN
        IF ~r.ok \/ r.i > Len(w) THEN ParseFail
        ELSE LET m2 == (StringLit[w[i]] :> r.v) @@ m IN
            IF w[r.i] = "}" THEN ParseOk(PyDict(m2), r.i + 1)
            ELSE IF w[r.i] = "," THEN ParseMembers(w, r.i + 1, m2)
            ELSE ParseFail

\* the elements of an array, from the element at token i
ParseElements(w, i, l) ==
    LET r == ParseValue(w, i) IN
        IF ~r.ok \/ r.i > Len(w) THEN ParseFail
        ELSE LET l2 == Append(l, r.v) IN
            IF w[r.i] = "]" THEN ParseOk(PyList(l2), r.i + 1)
            ELSE IF w[r.i] = "," THEN ParseElements(w, r.i + 1, l2)
            ELSE ParseFail

\* json.loads(text): ok |-> FALSE stands for JSONDecodeError
JsonLoads(toks) ==
    LET w == SelectSeq(toks, LAMBDA x : x # " ")
        r == ParseValue(w, 1)
    IN  IF r.ok /\ r.i = Len(w) + 1
        THEN [ok |-> TRUE, v |-> r.v]
        ELSE [ok |-> FALSE, v |-> PyNone]

(***************************************************************************)
(* dict.update(other): a mapping is merged over d; any other iterable must *)
(* yield pairs; a value that is not iterable raises.  ok |-> FALSE stands  *)
(* for the TypeError or ValueError that update raises.  A str is iterated  *)
(* character by character, so only the empty str is accepted.  List        *)
(* elements are taken as pairs when they are two-element lists keyed by a  *)
(* one-token str.                                                          *)
(***************************************************************************)
IsPair(e) ==
    /\ e.t = "list"
    /\ Len(e.l) = 2
    /\ e.l[1].t = "str"
    /\ Len(e.l[1].s) = 1

RECURSIVE UpdatePairs(_, _)
UpdatePairs(d, l) ==
    IF l = <<>> THEN [ok |-> TRUE, m |-> d]
    ELSE IF ~IsPair(Head(l)) THEN [ok |-> FALSE, m |-> d]
    ELSE UpdatePairs((Head(l).l[1].s[1] :> Head(l).l[2]) @@ d, Tail(l))

DictUpdate(d, other) ==
    CASE other.t = "dict" -> [ok |-> TRUE, m |-> other.m @@ d]
      [] other.t = "list" -> UpdatePairs(d, other.l)
      [] other.t = "str" -> [ok |-> other.s = <<>>, m |-> d]
      [] OTHER -> [ok |-> FALSE, m |-> d]

(***************************************************************************)
(* Exceptions and the outcome of a call: a returned value or a raised      *)
(* exception of class cls whose str() is the token sequence v.s            *)
(***************************************************************************)
Return(v) == [kind |-> "return", cls |-> "", v |-> v]
Raise(cls, msg) == [kind |-> "raise", cls |-> cls, v |-> PyStr(msg)]
NoResult == [kind |-> "none", cls |-> "", v |-> PyNone]

\* the classes `except Exception` catches (all that occur here derive from it)
ExceptionClasses == {"TypeError", "ValueError", "OSError", "EOFError"}

(***************************************************************************)
(* Target operations: the two file operations of the demo, and an          *)
(* operation without parameters and without docstring                      *)
(***************************************************************************)
Funcs == {"delete_file_impl", "create_file", "ping"}

\* list(inspect.signature(func).parameters.keys())
ParamNames(func) ==
    CASE func = "delete_file_impl" -> <<"filename">>
      [] func = "create_file" -> <<"filename", "content">>
      [] func = "ping" -> <<>>

\* func.__doc__ ("" when there is none)
Doc(func) ==
    CASE func = "delete_file_impl" ->
            "Delete a file. This function will be wrapped with approval requirement."
      [] func = "create_file" ->
            "Create a new file with content. Safe operation - no approval needed."
      [] func = "ping" -> ""

\* what a target does once its arguments are bound: it returns a text or
\* raises a failure with a description
TargetOutcomes ==
    { Return(PyStr(<<"done">>)), Raise("OSError", <<"disk full">>) }

Range(f) == {f[i] : i \in DOMAIN f}

\* Python's argument binding for a function whose parameters are all
\* required: positional values fill the first parameters, named values the
\* rest, nothing is given twice, unknown or missing
Binds(params, a, keys) ==
    /\ Len(a) <= Len(params)
    /\ keys \subseteq Range(params)
    /\ keys \cap {params[i] : i \in 1..Len(a)} = {}
    /\ \A i \in (Len(a) + 1)..Len(params) : params[i] \in keys

\* the call expression func(*call.args, **call.kwargs): ran tells whether
\* the body of func was entered
Invoke(func, call, out) ==
    IF ~IsDict(call.kwargs)
    THEN [ran |-> FALSE,
          res |-> Raise("TypeError", <<"argument after ** must be a mapping">>)]
    ELSE IF ~Binds(ParamNames(func), call.args, DOMAIN call.kwargs.m)
    THEN [ran |-> FALSE,
          res |-> Raise("TypeError", <<"missing or unexpected argument">>)]
    ELSE [ran |-> TRUE, res |-> out]

(***************************************************************************)
(* Decision sources                                                        *)
(***************************************************************************)
Sources == {"approver", "rejecter", "broken"}

\* callback(approval_info)
Decide(src, info) ==
    CASE src = "approver" -> Return(PyBool(TRUE))
      [] src = "rejecter" -> Return(PyBool(FALSE))
      [] src = "broken" -> Raise("EOFError", <<"EOF when reading a line">>)

(***************************************************************************)
(* ApprovalRequiredTool                                                    *)
(***************************************************************************)
\* __init__: description or func.__doc__ or "No description"
Description(description, func) ==
    IF description # "" THEN description
    ELSE IF Doc(func) # "" THEN Doc(func)
    ELSE "No description"

\* a registration that keeps the source registered first
SetCallbackKeepFirst(old, callback) == IF old = "None" THEN callback ELSE old

\* set_approval_callback: the new value of self.approval_callback
SetCallback(old, callback) == callback

\* a shape test satisfied by one reserved key
IsNestedEither(kw) == "args" \in DOMAIN kw \/ "kwargs" \in DOMAIN kw

\* 'args' in kwargs and 'kwargs' in kwargs
IsNested(kw) == "args" \in DOMAIN kw /\ "kwargs" \in DOMAIN kw

\* kwargs.get(key, default)
Get(kw, key, default) == IF key \in DOMAIN kw THEN kw[key] ELSE default

\* the conversion of nested_kwargs_str
NestedKwargs(nested_kwargs_str) ==
    IF IsStr(nested_kwargs_str) /\ Truthy(nested_kwargs_str)
    THEN IF Strip(nested_kwargs_str.s) # <<>>
         THEN LET r == JsonLoads(nested_kwargs_str.s) IN
              IF r.ok THEN r.v ELSE PyDict(EmptyMap)
         ELSE PyDict(EmptyMap)
    ELSE IF IsDict(nested_kwargs_str) THEN nested_kwargs_str
    ELSE PyDict(EmptyMap)

\* a merge in which the scalar binding overwrites the named values
MergeScalarWins(first, nested_args, nested_kwargs) ==
    LET u == DictUpdate(first :> nested_args, nested_kwargs) IN
    IF u.ok THEN Return(PyDict((first :> nested_args) @@ u.m))
    ELSE Raise("TypeError", <<"cannot update a dict from this value">>)

\* actual_kwargs = {param_names[0]: nested_args}; actual_kwargs.update(nested_kwargs)
Merge(first, nested_args, nested_kwargs) ==
    LET u == DictUpdate(first :> nested_args, nested_kwargs) IN
    IF u.ok THEN Return(PyDict(u.m))
    ELSE Raise("TypeError", <<"cannot update a dict from this value">>)

\* the mapping of 'args' to the first parameter
Unwrap(param_names, nested_args, nested_kwargs) ==
    IF param_names # <<>> /\ Truthy(nested_args)
    THEN Merge(param_names[1], nested_args, nested_kwargs)
    ELSE Return(nested_kwargs)

\* an approval request that leaves the positional values out
ApprovalInfoNamedOnly(func_name, description, a, kwv) ==
    [function_name |-> func_name,
     description |-> description,
     arguments |-> [args |-> <<>>, kwargs |-> kwv]]

\* approval_info, of either shape
ApprovalInfo(func_name, description, a, kwv) ==
    [function_name |-> func_name,
     description |-> description,
     arguments |-> [args |-> a, kwargs |-> kwv]]

\* a test `if approved is not None:`
ApprovedNotNone(approved) == approved # PyNone

\* `if approved:`
Approved(approved) == Truthy(approved)

\* a call that passes the named values only
TargetArgumentsNamedOnly(a, kw, actual) ==
    IF IsNested(kw)
    THEN [args |-> <<>>, kwargs |-> actual]
    ELSE [args |-> <<>>, kwargs |-> PyDict(kw)]

\* the arguments of the call of original_func in the approved branch
TargetArguments(a, kw, actual) ==
    IF IsNested(kw)
    THEN [args |-> <<>>, kwargs |-> actual]
    ELSE [args |-> a, kwargs |-> PyDict(kw)]

\* an approved branch that calls the target a second time
TargetCallsRetry(a, kw, actual) ==
    <<TargetArguments(a, kw, actual), TargetArguments(a, kw, actual)>>

\* the calls of original_func one approved invocation makes
TargetCalls(a, kw, actual) == <<TargetArguments(a, kw, actual)>>

\* `except Exception as e`
Catches(cls) == cls \in ExceptionClasses

\* an error text without the failure's description
ErrorMessageNoDetail(func_name, e) ==
    PyStr(<<"(x) ", "Error", " executing ", func_name>>)

\* f"... Error executing {self.func_name}: {e}"
ErrorMessage(func_name, e) ==
    PyStr(<<"(x) ", "Error", " executing ", func_name, ": ">> \o e)

\* f"... Function '{self.func_name}' was rejected by the user."
RejectionMessage(func_name) ==
    PyStr(<<"(no-entry) ", "Function '", func_name, "' was rejected by the user.">>)

(***************************************************************************)
(* ask_user_approval, the interactive decision source.  A line of input is *)
(* a sequence of characters.                                               *)
(***************************************************************************)
LowerTable ==
    ("Y" :> "y") @@ ("E" :> "e") @@ ("S" :> "s") @@ ("N" :> "n") @@ ("O" :> "o")

\* str.lower()
Lower(chars) ==
    [i \in DOMAIN chars |->
        IF chars[i] \in DOMAIN LowerTable THEN LowerTable[chars[i]] ELSE chars[i]]

\* a response taken as typed, without lower-casing
ResponseAsTyped(line) == Strip(line)

\* input(...).strip().lower()
Response(line) == Lower(Strip(line))

\* response in ['yes', 'y']
IsYes(response) == response \in { <<"y", "e", "s">>, <<"y">> }

\* response in ['no', 'n']
IsNo(response) == response \in { <<"n", "o">>, <<"n">> }

\* what is printed before the first prompt: the header with the function
\* name, one line per positional and per named argument, the rule
Shown(info) ==
    <<"header">>
    \o (IF info.arguments.args # <<>>
        THEN [i \in DOMAIN info.arguments.args |-> "arg"] ELSE <<>>)
    \o (IF Truthy(info.arguments.kwargs) /\ IsDict(info.arguments.kwargs)
        THEN [i \in 1..Cardinality(DOMAIN info.arguments.kwargs.m) |-> "kwarg"]
        ELSE <<>>)

\* args['kwargs'].items() exists for a dict only
ItemsFails(info) ==
    Truthy(info.arguments.kwargs) /\ ~IsDict(info.arguments.kwargs)

(***************************************************************************)
(* The requests the caller makes                                           *)
(***************************************************************************)
NotesTxt == PyStr(<<"notes.txt">>)

\* the wrappers constructed: <<func, description argument>> ("" for None)
Constructions ==
    { <<"delete_file_impl", "Delete a file from the system">>,
      <<"create_file", "">>,
      <<"ping", "">> }

PositionalSamples == { <<>>, <<NotesTxt>> }

\* values of the scalar field 'args'
ScalarSamples == { NotesTxt, PyStr(<<>>), PyInt(0), PyBool(FALSE) }

\* texts of the extra-values field 'kwargs'
ExtraTexts ==
    { <<>>,
      <<" ">>,
      <<"{", "}">>,
      <<"{", "\"content\"", ":", " ", "\"hi\"", "}">>,
      <<"{", "\"filename\"", ":", " ", "\"other.txt\"", "}">>,
      <<"{", "\"filename\"">>,
      <<"[", "]">>,
      <<"[", "1", "]">>,
      <<"[", "[", "\"filename\"", ",", "\"other.txt\"", "]", "]">>,
      <<"1">>,
      <<"null">> }

\* values of the extra-values field 'kwargs'
ExtraSamples ==
    {PyStr(x) : x \in ExtraTexts} \cup
    { PyDict(EmptyMap),
      PyDict("content" :> PyStr(<<"hi">>)),
      PyDict("filename" :> PyStr(<<"other.txt">>)),
      PyNone,
      PyInt(1) }

RequestKeys == {"args", "kwargs", "filename"}

ValuesFor(key) ==
    CASE key = "args" -> ScalarSamples
      [] key = "kwargs" -> ExtraSamples
      [] key = "filename" -> {NotesTxt}

KwargsSamples ==
    UNION { { kw \in [D -> UNION {ValuesFor(k) : k \in D}] :
                \A k \in D : kw[k] \in ValuesFor(k) } : D \in SUBSET RequestKeys }

\* the lines a user types
LineSamples ==
    { <<"y", "e", "s">>,
      <<"Y", "E", "S">>,
      <<" ", "Y", " ">>,
      <<"N", "o">>,
      <<" ", "n">>,
      <<>>,
      <<" ">>,
      <<"m", "a", "y", "b", "e">>,
      <<"y", "e", "s", "!">>,
      <<"n", " ", "o">> }

\* the approval requests shown to ask_user_approval: of a doubly-encoded
\* call, of a direct call with a positional value, and one whose named
\* values are not a mapping
InfoSamples ==
    { ApprovalInfo("delete_file_impl", "Delete a file from the system", <<>>,
                   PyDict("filename" :> NotesTxt)),
      ApprovalInfo("delete_file_impl", "Delete a file from the system",
                   <<NotesTxt>>, PyDict(EmptyMap)),
      ApprovalInfo("delete_file_impl", "Delete a file from the system", <<>>,
                   PyInt(1)) }

(***************************************************************************)
(* State                                                                   *)
(***************************************************************************)
VARIABLES
    original_func,      \* self.original_func (self.func_name is its name)
    description,        \* self.description
    approval_callback,  \* self.approval_callback, "None" or a source
    pc,                 \* where the running __call__ stands
    args,               \* *args of the running call
    kwargs,             \* **kwargs of the running call
    shape,              \* the branch taken at the shape test
    actual_kwargs,
    approval_info,
    approved,
    result,             \* what the call returns or raises
    calls,              \* the calls of original_func made by the running call
    consulted,          \* the sources consulted by the running call
    path,               \* the states and events of the running call, in order
    last_registered,    \* the argument of the latest set_approval_callback
    previous,           \* the source that registration replaced
    n_invocations,      \* calls of the wrapper so far
    n_approved,         \* calls of the wrapper approved so far
    n_calls,            \* calls of original_func so far
    ask_pc,             \* where ask_user_approval stands
    ask_info,           \* its argument
    ask_lines,          \* the lines input() has returned to it, in order
    ask_out,            \* what it has printed, in order
    ask_result          \* what it returns or raises

self == <<original_func, description, approval_callback>>
frame == <<args, kwargs, shape, actual_kwargs, approval_info, approved,
           result, calls, consulted, path>>
totals == <<n_invocations, n_approved, n_calls>>
registry == <<last_registered, previous>>
mediator == <<self, frame, totals, pc, registry>>
ask == <<ask_pc, ask_info, ask_lines, ask_out, ask_result>>
vars == <<mediator, ask>>

NoInfo == ApprovalInfo("", "", <<>>, PyNone)

FreshFrame ==
    /\ args = <<>>
    /\ kwargs = EmptyMap
    /\ shape = "none"
    /\ actual_kwargs = PyNone
    /\ approval_info = NoInfo
    /\ approved = PyNone
    /\ result = NoResult
    /\ calls = <<>>
    /\ consulted = <<>>
    /\ path = <<>>

AskIdle ==
    /\ ask_pc = "idle"
    /\ ask_info = NoInfo
    /\ ask_lines = <<>>
    /\ ask_out = <<>>
    /\ ask_result = NoResult

Init ==
    /\ AskIdle
    /\ \E c \in Constructions :
        /\ original_func = c[1]
        /\ description = Description(c[2], c[1])
    /\ approval_callback = "None"
    /\ pc = "idle"
    /\ FreshFrame
    /\ last_registered = "None"
    /\ previous = "None"
    /\ n_invocations = 0
    /\ n_approved = 0
    /\ n_calls = 0

(***************************************************************************)
(* Actions                                                                 *)
(***************************************************************************)
\* set_approval_callback(callback)
SetApprovalCallback(callback) ==
    /\ pc = "idle"
    /\ approval_callback' = SetCallback(approval_callback, callback)
    /\ last_registered' = callback
    /\ previous' = approval_callback
    /\ UNCHANGED <<original_func, description, frame, totals, pc, ask>>

\* the runtime calls the wrapper: __call__(*a, **kw)
Call(a, kw) ==
    /\ pc = "idle"
    /\ n_invocations < MaxInvocations
    /\ n_invocations' = n_invocations + 1
    /\ args' = a
    /\ kwargs' = kw
    /\ pc' = "received"
    /\ path' = <<"RECEIVED">>
    /\ UNCHANGED <<self, shape, actual_kwargs, approval_info, approved, result,
                   calls, consulted, registry, n_approved, n_calls, ask>>

\* the shape test and the unwrapping, up to the approval request
Normalize ==
    /\ pc = "received"
    /\ IF IsNested(kwargs)
       THEN LET nested_args == Get(kwargs, "args", PyStr(<<>>))
                nested_kwargs_str == Get(kwargs, "kwargs", PyStr(<<"{", "}">>))
                u == Unwrap(ParamNames(original_func), nested_args,
                            NestedKwargs(nested_kwargs_str))
            IN  /\ shape' = "nested"
                /\ IF u.kind = "raise"
                   THEN /\ result' = u
                        /\ pc' = "raised"
                        /\ UNCHANGED <<actual_kwargs, approval_info, path>>
                   ELSE /\ actual_kwargs' = u.v
                        /\ approval_info' =
                             ApprovalInfo(original_func, description, <<>>, u.v)
                        /\ pc' = "normalized"
                        /\ path' = Append(path, "NORMALIZED")
                        /\ UNCHANGED result
       ELSE /\ shape' = "direct"
            /\ actual_kwargs' = PyDict(kwargs)
            /\ approval_info' =
                 ApprovalInfo(original_func, description, args, PyDict(kwargs))
            /\ pc' = "normalized"
            /\ path' = Append(path, "NORMALIZED")
            /\ UNCHANGED result
    /\ UNCHANGED <<self, args, kwargs, approved, calls, consulted,
                   registry, totals, ask>>

\* the approval step
AskApproval ==
    /\ pc = "normalized"
    /\ IF approval_callback # "None"
       THEN LET d == Decide(approval_callback, approval_info) IN
            /\ consulted' = Append(consulted, approval_callback)
            /\ path' = Append(path, "consult")
            /\ IF d.kind = "raise"
               THEN /\ result' = d
                    /\ pc' = "raised"
                    /\ UNCHANGED approved
               ELSE /\ approved' = d.v
                    /\ pc' = "decided"
                    /\ UNCHANGED result
       ELSE /\ approved' = PyBool(TRUE)
            /\ pc' = "decided"
            /\ UNCHANGED <<result, consulted, path>>
    /\ UNCHANGED <<self, args, kwargs, shape, actual_kwargs, approval_info,
                   calls, registry, totals, ask>>

\* the approved branch (the target is called inside try) or the rejection
Execute ==
    /\ pc = "decided"
    /\ IF Approved(approved)
       THEN \E out \in TargetOutcomes :
            LET cs == TargetCalls(args, kwargs, actual_kwargs)
                r == [i \in DOMAIN cs |-> Invoke(original_func, cs[i], out)]
                last == r[Len(cs)].res
            IN  /\ calls' = [i \in DOMAIN cs |-> [args |-> cs[i].args,
                                                  kwargs |-> cs[i].kwargs,
                                                  ran |-> r[i].ran,
                                                  res |-> r[i].res]]
                /\ n_approved' = n_approved + 1
                /\ n_calls' = n_calls + Len(cs)
                /\ path' = path \o <<"APPROVED">> \o [i \in DOMAIN cs |-> "call"]
                              \o <<"EXECUTED">>
                /\ IF last.kind = "return"
                   THEN result' = last /\ pc' = "returned"
                   ELSE IF Catches(last.cls)
                   THEN /\ result' = Return(ErrorMessage(original_func, last.v.s))
                        /\ pc' = "returned"
                   ELSE result' = last /\ pc' = "raised"
       ELSE /\ result' = Return(RejectionMessage(original_func))
            /\ pc' = "returned"
            /\ path' = Append(path, "REJECTED")
            /\ UNCHANGED <<calls, n_approved, n_calls>>
    /\ UNCHANGED <<self, args, kwargs, shape, actual_kwargs, approval_info,
                   approved, consulted, registry, n_invocations, ask>>

\* the caller has the returned text, or the exception that escaped
Finish ==
    /\ pc \in {"returned", "raised"}
    /\ pc' = "idle"
    /\ args' = <<>>
    /\ kwargs' = EmptyMap
    /\ shape' = "none"
    /\ actual_kwargs' = PyNone
    /\ approval_info' = NoInfo
    /\ approved' = PyNone
    /\ result' = NoResult
    /\ calls' = <<>>
    /\ consulted' = <<>>
    /\ path' = <<>>
    /\ UNCHANGED <<self, registry, totals, ask>>

Next ==
    \/ \E callback \in Sources : SetApprovalCallback(callback)
    \/ \E a \in PositionalSamples, kw \in KwargsSamples : Call(a, kw)
    \/ Normalize
    \/ AskApproval
    \/ Execute
    \/ Finish

Spec == Init /\ [][Next]_vars

(***************************************************************************)
(* ask_user_approval on its own: the steps of one run of the function      *)
(***************************************************************************)
\* ask_user_approval(info) is called: it prints the request and prompts
AskUserApproval(info) ==
    /\ ask_pc = "idle"
    /\ ask_info' = info
    /\ ask_lines' = <<>>
    /\ IF ItemsFails(info)
       THEN /\ ask_out' = Shown(info)
            /\ ask_result' = Raise("AttributeError", <<"object has no attribute 'items'">>)
            /\ ask_pc' = "raised"
       ELSE /\ ask_out' = Shown(info) \o <<"rule", "prompt">>
            /\ ask_result' = NoResult
            /\ ask_pc' = "waiting"
    /\ UNCHANGED mediator

\* input() returns a line: one pass of the loop
ReadLine(line) ==
    /\ ask_pc = "waiting"
    /\ Len(ask_lines) < MaxLines
    /\ ask_lines' = Append(ask_lines, line)
    /\ IF IsYes(Response(line))
       THEN /\ ask_result' = Return(PyBool(TRUE))
            /\ ask_pc' = "returned"
            /\ UNCHANGED ask_out
       ELSE IF IsNo(Response(line))
       THEN /\ ask_result' = Return(PyBool(FALSE))
            /\ ask_pc' = "returned"
            /\ UNCHANGED ask_out
       ELSE /\ ask_out' = ask_out \o <<"complaint", "prompt">>
            /\ UNCHANGED <<ask_result, ask_pc>>
    /\ UNCHANGED <<mediator, ask_info>>

\* input() finds the input closed
EndOfInput ==
    /\ ask_pc = "waiting"
    /\ ask_result' = Raise("EOFError", <<"EOF when reading a line">>)
    /\ ask_pc' = "raised"
    /\ UNCHANGED <<mediator, ask_info, ask_lines, ask_out>>

\* the caller has the decision, or the exception
AskDone ==
    /\ ask_pc \in {"returned", "raised"}
    /\ ask_pc' = "idle"
    /\ ask_info' = NoInfo
    /\ ask_lines' = <<>>
    /\ ask_out' = <<>>
    /\ ask_result' = NoResult
    /\ UNCHANGED mediator

AskNext ==
    \/ \E info \in InfoSamples : AskUserApproval(info)
    \/ \E line \in LineSamples : ReadLine(line)
    \/ EndOfInput
    \/ AskDone

SpecAsk == Init /\ [][AskNext]_vars

(***************************************************************************)
(* Vocabulary of the properties                                            *)
(***************************************************************************)
\* the running call is past its normalization
Normalized == pc \in {"normalized", "decided", "returned", "raised"}

\* the running call has ended
Ended == pc \in {"returned", "raised"}

\* the running call was approved and is past the approved branch
ApprovedCall == Ended /\ approved # PyNone /\ Truthy(approved)

BothReservedKeys == "args" \in DOMAIN kwargs /\ "kwargs" \in DOMAIN kwargs

\* sub occurs in seq as a contiguous run of tokens
Contains(seq, sub) ==
    \E i \in 1..(Len(seq) - Len(sub) + 1) : SubSeq(seq, i, i + Len(sub) - 1) = sub

\* the extra-values field is a mapping, or a string that parses into one
DenotesMapping(v) ==
    \/ IsDict(v)
    \/ IsStr(v) /\ JsonLoads(v.s).ok /\ IsDict(JsonLoads(v.s).v)

\* the mapping the extra-values field denotes (empty when it denotes none)
ExtrasOf(v) ==
    IF IsDict(v) THEN v.m
    ELSE IF DenotesMapping(v) THEN JsonLoads(v.s).v.m
    ELSE EmptyMap

\* the target's first declared parameter (used where there is one)
FirstParam == ParamNames(original_func)[1]

TheRejectionText ==
    PyStr(<<"(no-entry) ", "Function '", original_func, "' was rejected by the user.">>)

(***************************************************************************)
(* C1  Rejection law: when the registered decision source returns False,   *)
(* the call makes no call of the target and returns the rejection message, *)
(* which names the target.                                                 *)
(***************************************************************************)
C1_RejectionLaw ==
    (pc \in {"decided", "returned", "raised"} /\ consulted # <<>>
        /\ approved = PyBool(FALSE))
    => /\ calls = <<>>
       /\ pc # "raised"
       /\ pc = "returned" =>
            /\ result = Return(TheRejectionText)
            /\ Contains(result.v.s, <<original_func>>)

C1_Witness ==
    /\ pc = "returned"
    /\ consulted = <<"rejecter">>
    /\ approved = PyBool(FALSE)
    /\ BothReservedKeys

(***************************************************************************)
(* C2  The mediator never raises: every call ends by returning a string.   *)
(***************************************************************************)
C2_NeverRaises ==
    Ended => (pc = "returned" /\ result.kind = "return" /\ IsStr(result.v))

(***************************************************************************)
(* C3  Failure containment: when the call of the target in an approved     *)
(* call raises a failure with description D, the mediator returns a text   *)
(* that contains "Error", the target's name and D.                         *)
(***************************************************************************)
TargetRaised == calls # <<>> /\ calls[Len(calls)].res.kind = "raise"

C3_FailureContainment ==
    (Ended /\ TargetRaised)
    => /\ pc = "returned"
       /\ result.kind = "return"
       /\ IsStr(result.v)
       /\ Contains(result.v.s, <<"Error">>)
       /\ Contains(result.v.s, <<original_func>>)
       /\ Contains(result.v.s, calls[Len(calls)].res.v.s)

C3_Witness ==
    /\ pc = "returned"
    /\ calls # <<>>
    /\ calls[1].ran
    /\ calls[1].res = Raise("OSError", <<"disk full">>)
    /\ Contains(result.v.s, <<"disk full">>)

(***************************************************************************)
(* C4  Exactly-once execution: an approved call makes exactly one call of  *)
(* the target, also when that call fails, any other call makes none, and   *)
(* over all calls so far the target was called as often as calls were      *)
(* approved.                                                               *)
(***************************************************************************)
C4_ExactlyOnce ==
    /\ ApprovedCall => Len(calls) = 1
    /\ (Ended /\ ~ApprovedCall) => calls = <<>>
    /\ n_calls = n_approved

C4_Witness ==
    /\ ApprovedCall
    /\ TargetRaised
    /\ n_approved = 2
    /\ n_invocations = 2

(***************************************************************************)
(* C5  No-callback law: with no decision source registered, every call     *)
(* calls the target and returns its result or its failure text, never the  *)
(* rejection message.                                                      *)
(***************************************************************************)
C5_NoCallbackApproves ==
    (Ended /\ approval_callback = "None")
    => /\ pc = "returned"
       /\ Len(calls) = 1
       /\ result # Return(TheRejectionText)

(***************************************************************************)
(* C6  Scalar binding: for a doubly-encoded request whose scalar field     *)
(* holds S and a target whose first parameter is P, when the extra values  *)
(* have no key P, the normalized call maps P to S and holds every extra    *)
(* key with its value.                                                     *)
(***************************************************************************)
C6_ScalarBinding ==
    (Normalized /\ BothReservedKeys /\ ParamNames(original_func) # <<>>
        /\ FirstParam \notin DOMAIN ExtrasOf(kwargs["kwargs"]))
    => /\ IsDict(actual_kwargs)
       /\ FirstParam \in DOMAIN actual_kwargs.m
       /\ actual_kwargs.m[FirstParam] = kwargs["args"]
       /\ \A k \in DOMAIN ExtrasOf(kwargs["kwargs"]) :
            /\ k \in DOMAIN actual_kwargs.m
            /\ actual_kwargs.m[k] = ExtrasOf(kwargs["kwargs"])[k]

(***************************************************************************)
(* C7  Named precedence: for a doubly-encoded request whose extra values   *)
(* have a key equal to the target's first parameter P, the normalized call *)
(* maps P to the extra value, not to the scalar.                           *)
(***************************************************************************)
C7_NamedPrecedence ==
    (Normalized /\ BothReservedKeys /\ ParamNames(original_func) # <<>>
        /\ FirstParam \in DOMAIN ExtrasOf(kwargs["kwargs"]))
    => /\ IsDict(actual_kwargs)
       /\ FirstParam \in DOMAIN actual_kwargs.m
       /\ actual_kwargs.m[FirstParam] = ExtrasOf(kwargs["kwargs"])[FirstParam]
       /\ approval_info.arguments.kwargs = actual_kwargs

C7_Witness ==
    /\ pc = "normalized"
    /\ BothReservedKeys
    /\ kwargs["args"] = NotesTxt
    /\ IsStr(kwargs["kwargs"])
    /\ actual_kwargs = PyDict("filename" :> PyStr(<<"other.txt">>))

(***************************************************************************)
(* C8  Extra-values fallback: in a doubly-encoded request whose extra      *)
(* values are neither a mapping nor a string that parses into one,         *)
(* normalization raises nothing and the normalized call is the scalar      *)
(* binding alone (the empty mapping when there is no scalar or no          *)
(* parameter; for a scalar that is empty, zero or false either is taken).  *)
(***************************************************************************)
C8_ExtraValuesFallback ==
    (pc # "idle" /\ pc # "received" /\ BothReservedKeys
        /\ ~DenotesMapping(kwargs["kwargs"]))
    => /\ Normalized
       /\ ~(pc = "raised" /\ consulted = <<>> /\ approved = PyNone)
       /\ IF ParamNames(original_func) = <<>>
          THEN actual_kwargs = PyDict(EmptyMap)
          ELSE IF Truthy(kwargs["args"])
          THEN actual_kwargs = PyDict(FirstParam :> kwargs["args"])
          ELSE actual_kwargs \in
                 {PyDict(EmptyMap), PyDict(FirstParam :> kwargs["args"])}

(***************************************************************************)
(* C9  Shape classification: a request is handled as doubly-encoded        *)
(* exactly when both reserved keys are among its named values; for every   *)
(* other request the named values shown to the decision source and passed  *)
(* to the target are the request's named values unchanged.                 *)
(***************************************************************************)
C9_ShapeClassification ==
    Normalized =>
        /\ (shape = "nested") <=> BothReservedKeys
        /\ (shape = "direct") <=> ~BothReservedKeys
        /\ ~BothReservedKeys =>
            /\ pc # "raised" => approval_info.arguments.kwargs = PyDict(kwargs)
            /\ \A i \in DOMAIN calls : calls[i].kwargs = PyDict(kwargs)

C9_Witness ==
    /\ pc = "returned"
    /\ shape = "direct"
    /\ DOMAIN kwargs = {"args"}
    /\ calls # <<>>
    /\ calls[1].kwargs = PyDict(kwargs)

(***************************************************************************)
(* C10  Last-write-wins registration: after any registrations the stored   *)
(* source is the most recently registered one, and a call consults that    *)
(* source only, never one that was replaced.                               *)
(***************************************************************************)
C10_LastWriteWins ==
    /\ approval_callback = last_registered
    /\ \A i \in DOMAIN consulted : consulted[i] = last_registered

C10_Witness ==
    /\ consulted # <<>>
    /\ previous \notin {"None", last_registered}
    /\ consulted[1] = last_registered

(***************************************************************************)
(* C11  Positional values in direct shape.  As claimed: for a direct-shape *)
(* request that carries positional values, the target is called with       *)
(* named arguments only and the positional values are not forwarded.       *)
(***************************************************************************)
C11_PositionalIgnored ==
    (Ended /\ ~BothReservedKeys /\ args # <<>>)
    => \A i \in DOMAIN calls : calls[i].args = <<>>

(***************************************************************************)
(* C11 as amended: for a direct-shape request that carries positional      *)
(* values, the target is called with those positional values, unchanged    *)
(* and in order, together with the named values; they are shown to the     *)
(* decision source as well.                                                *)
(***************************************************************************)
C11_PositionalForwarded ==
    (Normalized /\ ~BothReservedKeys /\ args # <<>>)
    => /\ pc # "raised" => approval_info.arguments.args = args
       /\ \A i \in DOMAIN calls :
            /\ calls[i].args = args
            /\ calls[i].kwargs = PyDict(kwargs)

C11_Witness ==
    /\ pc = "returned"
    /\ shape = "direct"
    /\ args = <<NotesTxt>>
    /\ kwargs = EmptyMap
    /\ original_func = "delete_file_impl"
    /\ calls # <<>>
    /\ calls[1].args = <<NotesTxt>>
    /\ calls[1].ran

(***************************************************************************)
(* Vocabulary of the ordering properties                                   *)
(***************************************************************************)
StateNames == {"RECEIVED", "NORMALIZED", "APPROVED", "EXECUTED", "REJECTED"}

\* the states the running call went through, without its events
StatesOf(p) == SelectSeq(p, LAMBDA e : e \in StateNames)

\* how often event e occurs in p
Count(p, e) == Cardinality({i \in DOMAIN p : p[i] = e})

IsPrefix(p, q) == Len(p) <= Len(q) /\ SubSeq(q, 1, Len(p)) = p

\* the complete runs of one call, with and without a decision source
CompleteRuns ==
    IF approval_callback # "None"
    THEN { <<"RECEIVED", "NORMALIZED", "consult", "APPROVED", "call", "EXECUTED">>,
           <<"RECEIVED", "NORMALIZED", "consult", "REJECTED">> }
    ELSE { <<"RECEIVED", "NORMALIZED", "APPROVED", "call", "EXECUTED">> }

(***************************************************************************)
(* C12  State-machine ordering: every call goes through RECEIVED,          *)
(* NORMALIZED and then either APPROVED and EXECUTED, or REJECTED; a        *)
(* registered decision source is consulted exactly once per call, after    *)
(* NORMALIZED; the target is called only after the decision, in APPROVED,  *)
(* and never once REJECTED is reached.                                     *)
(***************************************************************************)
C12_StateMachineOrdering ==
    Ended =>
        /\ StatesOf(path) \in
             { <<"RECEIVED", "NORMALIZED", "APPROVED", "EXECUTED">>,
               <<"RECEIVED", "NORMALIZED", "REJECTED">> }
        /\ approval_callback # "None" => Count(path, "consult") = 1
        /\ \A i \in DOMAIN path :
             /\ path[i] = "consult" => i > 1 /\ path[i - 1] = "NORMALIZED"
             /\ path[i] = "call" =>
                  /\ \E j \in 1..(i - 1) : path[j] = "APPROVED"
                  /\ \A j \in 1..(i - 1) : path[j] # "REJECTED"
                  /\ approval_callback # "None" =>
                        \E j \in 1..(i - 1) : path[j] = "consult"

\* the order alone: what a call has done so far is the beginning of a
\* complete run
C12_OrderOfSteps ==
    /\ \E q \in CompleteRuns : IsPrefix(path, q)
    /\ Len(consulted) = Count(path, "consult")
    /\ Len(calls) = Count(path, "call")

(***************************************************************************)
(* C13  ask_user_approval: the decision is that of the first line read     *)
(* that, trimmed and lower-cased, is yes, y, no or n (True for yes and y,  *)
(* False for no and n); every line read before it is answered by a         *)
(* complaint and a new prompt and gives no decision; the function returns  *)
(* at that line, reads nothing after it, and does not return before it.    *)
(***************************************************************************)
AnswerOf(line) == Lower(Strip(line))

Decisive(line) ==
    AnswerOf(line) \in { <<"y", "e", "s">>, <<"y">>, <<"n", "o">>, <<"n">> }

Affirmative(line) == AnswerOf(line) \in { <<"y", "e", "s">>, <<"y">> }

C13_FirstDecisiveLine ==
    /\ \A i \in 1..(Len(ask_lines) - 1) : ~Decisive(ask_lines[i])
    /\ ask_pc = "returned" =>
         /\ ask_lines # <<>>
         /\ Decisive(ask_lines[Len(ask_lines)])
         /\ ask_result = Return(PyBool(Affirmative(ask_lines[Len(ask_lines)])))
         /\ Count(ask_out, "complaint") = Len(ask_lines) - 1
         /\ Count(ask_out, "prompt") = Len(ask_lines)
    /\ ask_pc \in {"waiting", "raised"} =>
         /\ \A i \in DOMAIN ask_lines : ~Decisive(ask_lines[i])
         /\ ask_result.kind # "return"
         /\ Count(ask_out, "complaint") = Len(ask_lines)
    /\ ask_pc = "waiting" =>
         /\ Count(ask_out, "prompt") = Len(ask_lines) + 1
         /\ ask_out[Len(ask_out)] = "prompt"

C13_Witness ==
    /\ ask_pc = "returned"
    /\ ask_lines = << <<"m", "a", "y", "b", "e">>, <<>>, <<" ", "Y", " ">> >>
    /\ ask_result = Return(PyBool(TRUE))

(***************************************************************************)
(* C14  Approved-equals-executed: in an approved call with a registered    *)
(* decision source (none of the sources changes the request it is given),  *)
(* the target is called with exactly the arguments of the approval request *)
(* shown to the source: no positional values and the normalized named      *)
(* values for a doubly-encoded request, the request's positional and named *)
(* values for a direct one; and the approval request names the wrapped     *)
(* operation.                                                              *)
(***************************************************************************)
C14_ApprovedEqualsExecuted ==
    (ApprovedCall /\ consulted # <<>>)
    => /\ calls # <<>>
       /\ approval_info.function_name = original_func
       /\ \A i \in DOMAIN calls :
            /\ calls[i].args = approval_info.arguments.args
            /\ calls[i].kwargs = approval_info.arguments.kwargs
       /\ IF BothReservedKeys
          THEN /\ approval_info.arguments.args = <<>>
               /\ approval_info.arguments.kwargs = actual_kwargs
          ELSE /\ approval_info.arguments.args = args
               /\ approval_info.arguments.kwargs = PyDict(kwargs)

C14_Witness ==
    /\ ApprovedCall
    /\ consulted = <<"approver">>
    /\ args = <<NotesTxt>>
    /\ DOMAIN kwargs = {}
    /\ calls # <<>>
    /\ calls[1].args = <<NotesTxt>>
    /\ approval_info.arguments.args = <<NotesTxt>>
====
